---- MODULE Spec2Model ----
(***************************************************************************)
(* Workflow compiler of Node-Pilot-Backend: the request pipeline           *)
(*   POST /generate -> validateWorkflowRequest -> handleWorkflowGenerate   *)
(*                  -> generateWorkflow (generators, one after another)    *)
(*                  -> archive -> deleteGeneratedFolder                    *)
(* Names are sequences of one-character strings, so that toLowerCase,      *)
(* capitalize and the identifier test are computed character by character. *)
(***************************************************************************)
EXTENDS Integers, Sequences, FiniteSets, TLC

VARIABLES
    body,              \* req.body: the Workflows value of the request
    pc,                \* position of the request in the route's handler chain
    step,              \* index of the generator step generateWorkflow awaits
    validationErrors,  \* the report validateWorkflowRequest built
    response,          \* what the client was sent
    baseDirExists,     \* generated/<genDir>/<name> (and its parent) exists
    files,             \* the files written below baseDir
    schemaPrisma,      \* the models written to prisma/schema.prisma
    returned,          \* generateWorkflow returned { message, baseDir }
    listeners,         \* res.on('finish') / res.on('error') are registered
    finished,          \* the response stream emitted finish or error
    genDir,            \* generateFolderName() of this request
    otherDirs,         \* the folder names of the other requests of the server
    cleanupRan,        \* deleteGeneratedFolder(result.baseDir) was called
    typeLines,         \* per entity, the lines of src/types/<name>.ts
    zodSchemas,        \* per entity, the z.object of src/controllers/<name>.controller.ts
    firstRun,          \* what an earlier compilation of the same body produced
    sections           \* the parts package.json and src/app.ts are made of

vars == <<body, pc, step, validationErrors, response, baseDirExists, files,
          schemaPrisma, returned, listeners, finished, genDir, otherDirs, cleanupRan,
          typeLines, zodSchemas, firstRun, sections>>

-----------------------------------------------------------------------------
(* Bounds of the model *)

\* entities per Workflow in the pipeline and validation families
MaxEntities == 2
\* relations per entity in the pipeline and validation families
MaxRelations == 1
\* properties per entity in the validation family
MaxProps == 2
\* entities of the relation-graph family
MaxGraphEntities == 3
\* relations per entity, and in total, in the relation-graph family
MaxGraphRelations == 2
MaxGraphTotal == 3
\* validation rules per property in the rule family
MaxRules == 2
\* the seconds of the clock and the random suffixes generateFolderName can draw
MaxSeconds == 1
MaxRandom == 2
\* the largest number of entities of a request of the size family
MaxCount == 22

(* Program constants *)
\* a limit that lets one more entity through
MaxWorkflowsOffByOne == 20 + 1

MaxWorkflows == 20
MaxProjectNameLen == 50

-----------------------------------------------------------------------------
(* Characters and strings *)

LowerAlpha == <<"a","b","c","d","e","f","g","h","i","j","k","l","m",
                "n","o","p","q","r","s","t","u","v","w","x","y","z">>
UpperAlpha == <<"A","B","C","D","E","F","G","H","I","J","K","L","M",
                "N","O","P","Q","R","S","T","U","V","W","X","Y","Z">>
Digits == {"0","1","2","3","4","5","6","7","8","9"}

LowerSet == {LowerAlpha[i] : i \in 1..26}
UpperSet == {UpperAlpha[i] : i \in 1..26}
IsLower(c) == c \in LowerSet
IsUpper(c) == c \in UpperSet

lowerOf == [c \in UpperSet |-> LowerAlpha[CHOOSE i \in 1..26 : UpperAlpha[i] = c]]
upperOf == [c \in LowerSet |-> UpperAlpha[CHOOSE i \in 1..26 : LowerAlpha[i] = c]]
toLowerChar(c) == IF IsUpper(c) THEN lowerOf[c] ELSE c
toUpperChar(c) == IF IsLower(c) THEN upperOf[c] ELSE c

\* String.prototype.toLowerCase
toLowerCase(s) == [i \in 1..Len(s) |-> toLowerChar(s[i])]

\* str.charAt(0).toUpperCase() + str.slice(1)
capitalize(s) == IF Len(s) = 0 THEN s ELSE <<toUpperChar(s[1])>> \o Tail(s)

\* pluralize(word) of the pluralize package, for regular nouns
pluralize(s) == s \o <<"s">>

\* /^[a-zA-Z_$][a-zA-Z0-9_$]*$/.test(name)
IsIdentStart(c) == IsLower(c) \/ IsUpper(c) \/ c = "_" \/ c = "$"
IsIdentPart(c) == IsIdentStart(c) \/ c \in Digits
jsIdentifierRegex(s) ==
    /\ Len(s) > 0
    /\ IsIdentStart(s[1])
    /\ \A i \in 2..Len(s) : IsIdentPart(s[i])

\* name.trim().length === 0
IsBlank(s) == \A i \in 1..Len(s) : s[i] = " "

\* Array.prototype.indexOf: 0-based, -1 when absent
indexOf(seq, x) ==
    IF \E i \in 1..Len(seq) : seq[i] = x
    THEN (CHOOSE i \in 1..Len(seq) : seq[i] = x /\ \A j \in 1..(i-1) : seq[j] # x) - 1
    ELSE -1

\* Array.prototype.slice(start): a negative start counts from the end
slice(seq, start) ==
    LET from == IF start < 0 THEN (IF Len(seq) + start < 0 THEN 0 ELSE Len(seq) + start)
                ELSE start
    IN  IF from >= Len(seq) THEN <<>> ELSE SubSeq(seq, from + 1, Len(seq))

\* insertion into a JS Set kept in insertion order
setAdd(seq, x) == IF \E i \in 1..Len(seq) : seq[i] = x THEN seq ELSE Append(seq, x)

Range(seq) == {seq[i] : i \in 1..Len(seq)}

-----------------------------------------------------------------------------
(* utils/helpers.ts: name validation *)

reservedKeywords ==
    { <<"a","b","s","t","r","a","c","t">>, <<"a","r","g","u","m","e","n","t","s">>,
      <<"a","w","a","i","t">>, <<"b","o","o","l","e","a","n">>, <<"b","r","e","a","k">>,
      <<"b","y","t","e">>, <<"c","a","s","e">>, <<"c","a","t","c","h">>, <<"c","h","a","r">>,
      <<"c","l","a","s","s">>, <<"c","o","n","s","t">>, <<"c","o","n","t","i","n","u","e">>,
      <<"d","e","b","u","g","g","e","r">>, <<"d","e","f","a","u","l","t">>,
      <<"d","e","l","e","t","e">>, <<"d","o">>, <<"d","o","u","b","l","e">>, <<"e","l","s","e">>,
      <<"e","n","u","m">>, <<"e","v","a","l">>, <<"e","x","p","o","r","t">>,
      <<"e","x","t","e","n","d","s">>, <<"f","a","l","s","e">>, <<"f","i","n","a","l">>,
      <<"f","i","n","a","l","l","y">>, <<"f","l","o","a","t">>, <<"f","o","r">>,
      <<"f","u","n","c","t","i","o","n">>, <<"g","o","t","o">>, <<"i","f">>,
      <<"i","m","p","l","e","m","e","n","t","s">>, <<"i","m","p","o","r","t">>, <<"i","n">>,
      <<"i","n","s","t","a","n","c","e","o","f">>, <<"i","n","t">>,
      <<"i","n","t","e","r","f","a","c","e">>, <<"l","e","t">>, <<"l","o","n","g">>,
      <<"n","a","t","i","v","e">>, <<"n","e","w">>, <<"n","u","l","l">>,
      <<"p","a","c","k","a","g","e">>, <<"p","r","i","v","a","t","e">>,
      <<"p","r","o","t","e","c","t","e","d">>, <<"p","u","b","l","i","c">>,
      <<"r","e","t","u","r","n">>, <<"s","h","o","r","t">>, <<"s","t","a","t","i","c">>,
      <<"s","u","p","e","r">>, <<"s","w","i","t","c","h">>,
      <<"s","y","n","c","h","r","o","n","i","z","e","d">>, <<"t","h","i","s">>,
      <<"t","h","r","o","w">>, <<"t","h","r","o","w","s">>, <<"t","r","a","n","s","i","e","n","t">>,
      <<"t","r","u","e">>, <<"t","r","y">>, <<"t","y","p","e","o","f">>, <<"v","a","r">>,
      <<"v","o","i","d">>, <<"v","o","l","a","t","i","l","e">>, <<"w","h","i","l","e">>,
      <<"w","i","t","h">>, <<"y","i","e","l","d">> }

problematicNames ==
    { <<"c","o","n","s","t","r","u","c","t","o","r">>, <<"p","r","o","t","o","t","y","p","e">>,
      <<"t","o","S","t","r","i","n","g">>, <<"v","a","l","u","e","O","f">> }

sqlReservedWords ==
    { <<"s","e","l","e","c","t">>, <<"f","r","o","m">>, <<"w","h","e","r","e">>,
      <<"i","n","s","e","r","t">>, <<"u","p","d","a","t","e">>, <<"d","e","l","e","t","e">>,
      <<"c","r","e","a","t","e">>, <<"d","r","o","p">>, <<"a","l","t","e","r">>,
      <<"t","a","b","l","e">>, <<"d","a","t","a","b","a","s","e">>, <<"i","n","d","e","x">>,
      <<"v","i","e","w">>, <<"t","r","i","g","g","e","r">>, <<"p","r","o","c","e","d","u","r","e">>,
      <<"f","u","n","c","t","i","o","n">>, <<"u","s","e","r">>, <<"g","r","o","u","p">>,
      <<"o","r","d","e","r">>, <<"b","y">>, <<"h","a","v","i","n","g">>, <<"g","r","o","u","p">>,
      <<"u","n","i","o","n">>, <<"j","o","i","n">>, <<"i","n","n","e","r">>, <<"o","u","t","e","r">>,
      <<"l","e","f","t">>, <<"r","i","g","h","t">>, <<"f","u","l","l">>, <<"c","r","o","s","s">>,
      <<"o","n">>, <<"a","s">>, <<"a","n","d">>, <<"o","r">>, <<"n","o","t">>, <<"n","u","l","l">>,
      <<"i","s">>, <<"l","i","k","e">>, <<"b","e","t","w","e","e","n">>, <<"i","n">>,
      <<"e","x","i","s","t","s">>, <<"a","n","y">>, <<"a","l","l">>, <<"s","o","m","e">>,
      <<"c","a","s","e">>, <<"w","h","e","n">>, <<"t","h","e","n">>, <<"e","l","s","e">>,
      <<"e","n","d">>, <<"c","a","s","t">>, <<"c","o","n","v","e","r","t">>, <<"c","o","u","n","t">>,
      <<"s","u","m">>, <<"a","v","g">>, <<"m","i","n">>, <<"m","a","x">>,
      <<"d","i","s","t","i","n","c","t">> }

\* the errors validateEntityName pushes, in order
validateEntityName(name) ==
    (IF Len(name) = 0 \/ IsBlank(name) THEN <<"empty">> ELSE <<>>)
    \o (IF ~jsIdentifierRegex(name) THEN <<"identifier">> ELSE <<>>)
    \o (IF toLowerCase(name) \in reservedKeywords THEN <<"reserved">> ELSE <<>>)
    \o (IF toLowerCase(name) \in problematicNames THEN <<"builtin">> ELSE <<>>)

\* validatePropertyName: the entity-name errors, then the SQL word check
validatePropertyName(name) ==
    validateEntityName(name)
    \o (IF toLowerCase(name) \in sqlReservedWords THEN <<"sql">> ELSE <<>>)

-----------------------------------------------------------------------------
(* middleware/validation.ts: validateValidationRule *)

\* a validation rule: value is the number of minLength/maxLength/min/max, text
\* the string of pattern/startsWith/endsWith/custom, values the list of enum
Rule(t, v, txt, vals) == [type |-> t, value |-> v, text |-> txt, values |-> vals]

\* new RegExp(value) throws on a pattern whose groups are not balanced
RECURSIVE depthAfter(_, _, _)
depthAfter(p, i, d) ==
    IF i > Len(p) \/ d < 0 THEN d
    ELSE depthAfter(p, i + 1, IF p[i] = "(" THEN d + 1 ELSE IF p[i] = ")" THEN d - 1 ELSE d)
RegExpCompiles(p) == depthAfter(p, 1, 0) = 0

\* a list of numeric types that lets string through as well
numericTypesAndString == {"number", "int", "float", "date", "datetime", "string"}

numericTypes == {"number", "int", "float", "date", "datetime"}

\* the errors validateValidationRule pushes for one rule, in order
validateValidationRule(rule, propertyType) ==
    CASE rule.type \in {"minLength", "maxLength"} ->
            (IF propertyType # "string" THEN <<"stringOnly">> ELSE <<>>)
            \o (IF rule.value < 0 THEN <<"nonNegative">> ELSE <<>>)
      [] rule.type \in {"min", "max"} ->
            (IF propertyType \notin numericTypes THEN <<"numberOrDateOnly">> ELSE <<>>)
      [] rule.type \in {"email", "url", "uuid"} ->
            (IF propertyType # "string" THEN <<"stringOnly">> ELSE <<>>)
      [] rule.type = "pattern" ->
            (IF propertyType # "string" THEN <<"stringOnly">> ELSE <<>>)
            \o (IF ~RegExpCompiles(rule.text) THEN <<"invalidRegex">> ELSE <<>>)
      [] rule.type = "enum" ->
            (IF Len(rule.values) = 0 THEN <<"emptyEnum">> ELSE <<>>)
      [] rule.type \in {"startsWith", "endsWith"} ->
            (IF propertyType # "string" THEN <<"stringOnly">> ELSE <<>>)
            \o (IF Len(rule.text) = 0 THEN <<"emptyString">> ELSE <<>>)
      [] rule.type = "custom" ->
            (IF Len(rule.text) = 0 THEN <<"noValidator">> ELSE <<>>)
      [] OTHER -> <<>>

-----------------------------------------------------------------------------
(* utils/helpers.ts: validateRelationships *)

\* one entry of validationErrors: kind names the message, entity and member the
\* names inside it, info the joined errors, path the cycle path
Err(k, e, m, i, p) ==
    [kind |-> k, entity |-> e, member |-> m, info |-> i, path |-> p]

\* an edge test that lets every relation between two names through
IsAnyEdge(r) == Len(r.entity) > 0 /\ Len(r.controller) > 0 /\ r.entity # r.controller

\* relation.relation is one-to-one or one-to-many, relation.isParent is set, and
\* entity and controller are non-empty and differ as strings
IsParentChildEdge(r) ==
    /\ Len(r.entity) > 0 /\ Len(r.controller) > 0 /\ r.entity # r.controller
    /\ r.relation \in {"one-to-one", "one-to-many"}
    /\ r.isParent

\* parentChildEdges: a Map from entity to the Set of its children, both in
\* insertion order: keys is the key order, kids[i] the children of keys[i]
RECURSIVE parentChildEdges(_, _, _)
parentChildEdges(relations, i, m) ==
    IF i > Len(relations) THEN m
    ELSE LET r == relations[i]
             k == indexOf(m.keys, r.entity) + 1
         IN  IF ~IsParentChildEdge(r) THEN parentChildEdges(relations, i + 1, m)
             ELSE IF k = 0
             THEN parentChildEdges(relations, i + 1,
                      [keys |-> Append(m.keys, r.entity),
                       kids |-> Append(m.kids, <<r.controller>>)])
             ELSE parentChildEdges(relations, i + 1,
                      [m EXCEPT !.kids[k] = setAdd(@, r.controller)])

childrenOf(m, entity) ==
    LET k == indexOf(m.keys, entity) + 1 IN IF k = 0 THEN <<>> ELSE m.kids[k]

\* hasCycle(entity, path) and its loop over the children; st carries the closure's
\* visited, recursionStack and errors, and ret is the value returned
RECURSIVE hasCycle(_, _, _, _)
RECURSIVE hasCycleChildren(_, _, _, _, _, _)
hasCycle(m, entity, path, st) ==
    IF entity \in st.recursionStack
    THEN LET cycleStart == indexOf(path, entity)
             cyclePath == Append(slice(path, cycleStart), entity)
         IN  [st EXCEPT !.errors = Append(@, Err("Cycle", <<>>, <<>>, <<>>, cyclePath)),
                        !.ret = TRUE]
    ELSE IF entity \in st.visited
    THEN [st EXCEPT !.ret = FALSE]
    ELSE hasCycleChildren(m, entity, childrenOf(m, entity), 1, path,
             [st EXCEPT !.visited = @ \cup {entity},
                        !.recursionStack = @ \cup {entity}])

hasCycleChildren(m, entity, children, k, path, st) ==
    IF k > Len(children)
    THEN [st EXCEPT !.recursionStack = @ \ {entity}, !.ret = FALSE]
    ELSE LET r == hasCycle(m, children[k], Append(path, entity), st)
         IN  IF r.ret THEN r
             ELSE hasCycleChildren(m, entity, children, k + 1, path, r)

\* for (const entity of parentChildEdges.keys()) if (!visited.has(entity)) hasCycle(entity)
RECURSIVE checkKeys(_, _, _)
checkKeys(m, i, st) ==
    IF i > Len(m.keys) THEN st
    ELSE IF m.keys[i] \in st.visited THEN checkKeys(m, i + 1, st)
    ELSE checkKeys(m, i + 1, hasCycle(m, m.keys[i], <<>>, st))

\* the errors of validateRelationships(relations); isValid is errors.length === 0
validateRelationships(relations) ==
    LET m == parentChildEdges(relations, 1, [keys |-> <<>>, kids |-> <<>>])
    IN  checkKeys(m, 1, [visited |-> {}, recursionStack |-> {}, errors |-> <<>>,
                         ret |-> FALSE]).errors

-----------------------------------------------------------------------------
(* middleware/validation.ts: validateWorkflowRequest *)

\* the z.enum of PropertiesSchema.type
PropertyTypes ==
    {"string", "number", "boolean", "bigint", "symbol", "undefined", "null", "object",
     "array", "function", "date", "any", "unknown", "void", "never", "json", "float",
     "int", "datetime", "bytes", "decimal"}

\* ValidationRuleSchema.safeParse(rule).success: some member of the union accepts it
ruleParses(rule) ==
    CASE rule.type = "minLength" -> rule.value >= 0
      [] rule.type = "maxLength" -> rule.value >= 1
      [] rule.type \in {"pattern", "startsWith", "endsWith", "custom"} -> Len(rule.text) >= 1
      [] rule.type \in {"min", "max", "email", "url", "uuid"} -> TRUE
      [] rule.type = "enum" -> Len(rule.values) >= 1
      [] OTHER -> FALSE

\* PropertiesSchema.safeParse(prop).success
propertyParses(prop) ==
    /\ Len(prop.name) >= 1
    /\ prop.type \in PropertyTypes
    /\ \A k \in 1..Len(prop.validation) : ruleParses(prop.validation[k])

\* WorkflowsSchema.safeParse(req.body).success, on the fields the model carries
safeParse(b) ==
    /\ Len(b.name) >= 1 /\ Len(b.name) <= MaxProjectNameLen
    /\ Len(b.workflows) >= 1 /\ Len(b.workflows) <= MaxWorkflows
    /\ \A i \in 1..Len(b.workflows) :
          /\ Len(b.workflows[i].name) >= 1
          /\ \A j \in 1..Len(b.workflows[i].props) : propertyParses(b.workflows[i].props[j])
          /\ \A j \in 1..Len(b.workflows[i].relations) :
                Len(b.workflows[i].relations[j].controller) >= 1

\* a membership test that compares names as written
hasNameExact(names, name) == name \in names

\* entityNames.has(name.toLowerCase()), and propertyNames.has(...) alike
hasName(names, name) == toLowerCase(name) \in names

\* the errors of the rules of one property
RECURSIVE ruleErrors(_, _, _)
ruleErrors(w, prop, k) ==
    IF k > Len(prop.validation) THEN <<>>
    ELSE LET errs == validateValidationRule(prop.validation[k], prop.type)
         IN  (IF Len(errs) > 0 THEN <<Err("Rule", w.name, prop.name, errs, <<>>)>> ELSE <<>>)
             \o ruleErrors(w, prop, k + 1)

\* the loop over workflow.props; a duplicate property is reported and skipped
RECURSIVE propErrors(_, _, _)
propErrors(w, j, propertyNames) ==
    IF j > Len(w.props) THEN <<>>
    ELSE LET prop == w.props[j] IN
         IF hasName(propertyNames, prop.name)
         THEN <<Err("DuplicateProperty", w.name, prop.name, <<>>, <<>>)>>
              \o propErrors(w, j + 1, propertyNames)
         ELSE LET errs == validatePropertyName(prop.name)
              IN  (IF Len(errs) > 0
                   THEN <<Err("PropertyName", w.name, prop.name, errs, <<>>)>> ELSE <<>>)
                  \o ruleErrors(w, prop, 1)
                  \o propErrors(w, j + 1, propertyNames \cup {toLowerCase(prop.name)})

\* the loop over workflow.relations: the referenced entity must exist
relationErrors(w, workflows, entityNames) ==
    LET missing(r) ==
            /\ ~hasName(entityNames, r.controller)
            /\ ~\E i \in 1..Len(workflows) :
                   toLowerCase(workflows[i].name) = toLowerCase(r.controller)
        RECURSIVE loop(_)
        loop(j) ==
            IF j > Len(w.relations) THEN <<>>
            ELSE (IF missing(w.relations[j])
                  THEN <<Err("MissingEntity", w.name, w.relations[j].controller, <<>>, <<>>)>>
                  ELSE <<>>)
                 \o loop(j + 1)
    IN  loop(1)

\* the loop over workflows; a duplicate entity is reported and skipped
RECURSIVE entityErrors(_, _, _)
entityErrors(workflows, i, entityNames) ==
    IF i > Len(workflows) THEN <<>>
    ELSE LET w == workflows[i] IN
         IF hasName(entityNames, w.name)
         THEN <<Err("DuplicateEntity", w.name, <<>>, <<>>, <<>>)>>
              \o entityErrors(workflows, i + 1, entityNames)
         ELSE LET names == entityNames \cup {toLowerCase(w.name)}
                  errs == validateEntityName(w.name)
              IN  (IF Len(errs) > 0
                   THEN <<Err("EntityName", w.name, <<>>, errs, <<>>)>> ELSE <<>>)
                  \o propErrors(w, 1, {})
                  \o relationErrors(w, workflows, names)
                  \o entityErrors(workflows, i + 1, names)

\* workflows.flatMap(w => (w.relations || []).map(r => ({ ...r, entity: w.name })))
RECURSIVE allRelations(_, _)
allRelations(workflows, i) ==
    IF i > Len(workflows) THEN <<>>
    ELSE [j \in 1..Len(workflows[i].relations) |->
             [relation |-> workflows[i].relations[j].relation,
              isParent |-> workflows[i].relations[j].isParent,
              controller |-> workflows[i].relations[j].controller,
              entity |-> workflows[i].name]]
         \o allRelations(workflows, i + 1)

\* validationErrors as it stands at the final length test
validationReport(b) ==
    entityErrors(b.workflows, 1, {})
    \o validateRelationships(allRelations(b.workflows, 1))
    \o (LET errs == validateEntityName(b.name)
        IN  IF Len(errs) > 0 THEN <<Err("ProjectName", b.name, <<>>, errs, <<>>)>> ELSE <<>>)

-----------------------------------------------------------------------------
(* generators/prisma-schema.generator.ts *)

mapToPrismaType(type) ==
    CASE type = "string" -> "String"
      [] type = "number" -> "Int"
      [] type = "float" -> "Float"
      [] type = "boolean" -> "Boolean"
      [] type \in {"datetime", "date"} -> "DateTime"
      [] type = "json" -> "Json"
      [] type = "bytes" -> "Bytes"
      [] type = "decimal" -> "Decimal"
      [] type = "bigint" -> "BigInt"
      [] OTHER -> "String"

\* one line of a model: a scalar column (scalar is its Prisma type) or a relation
\* field (model is the model it refers to); mod is "", "?" or "[]"; fields is the
\* fields list of its @relation attribute; attr its other attribute
Field(n, sc, mo, md, fs, at) ==
    [name |-> n, scalar |-> sc, model |-> mo, mod |-> md, fields |-> fs, attr |-> at]

idName == <<"i","d">>
IdSuffix == <<"I","d">>
createdAtName == <<"c","r","e","a","t","e","d","A","t">>
updatedAtName == <<"u","p","d","a","t","e","d","A","t">>

\* the lines one relation adds to the model of the entity that declares it
relationFields(relation) ==
    LET c == relation.controller IN
    IF relation.relation = "one-to-one"
    THEN IF relation.isParent
         THEN <<Field(c, "", capitalize(c), "?", <<>>, "")>>
         ELSE <<Field(c, "", capitalize(c), "", <<c \o IdSuffix>>, "@relation"),
                Field(c \o IdSuffix, "String", <<>>, "", <<>>, "@unique")>>
    ELSE IF relation.relation = "one-to-many"
    THEN IF relation.isParent
         THEN <<Field(pluralize(c), "", capitalize(c), "[]", <<>>, "")>>
         ELSE <<Field(c, "", capitalize(c), "", <<c \o IdSuffix>>, "@relation"),
                Field(c, "String", <<>>, "", <<>>, "")>>
    ELSE <<Field(pluralize(c), "", capitalize(c), "[]", <<>>, "")>>

RECURSIVE flatten(_)
flatten(ss) == IF Len(ss) = 0 THEN <<>> ELSE Head(ss) \o flatten(Tail(ss))

\* a model that carries the folder name of the request in its id line
prismaModelInFolder(w) ==
    [name |-> capitalize(w.controllers.name),
     fields |-> <<Field(idName, "String", <<>>, "", <<>>, genDir)>>]

\* the model emitted for one entity
prismaModel(w) ==
    [name |-> capitalize(w.controllers.name),
     fields |->
        <<Field(idName, "String", <<>>, "", <<>>, "@id")>>
        \o [j \in 1..Len(w.props) |->
               Field(w.props[j].name, mapToPrismaType(w.props[j].type), <<>>,
                     IF w.props[j].nullable THEN "?" ELSE "", <<>>, "")]
        \o flatten([j \in 1..Len(w.relations) |-> relationFields(w.relations[j])])
        \o <<Field(createdAtName, "DateTime", <<>>, "", <<>>, "@default(now())"),
             Field(updatedAtName, "DateTime", <<>>, "", <<>>, "@updatedAt")>>]

\* w.controllers.name throws a TypeError when the entity has no controllers key
schemaThrows(workflow) == \E i \in 1..Len(workflow) : ~workflow[i].controllers.defined

\* the models in the opposite order
schemaModelsReversed(workflow) ==
    [i \in 1..Len(workflow) |-> prismaModel(workflow[Len(workflow) + 1 - i])]

\* the models generateSchemaPrisma writes, in the order of the Workflow
schemaModels(workflow) == [i \in 1..Len(workflow) |-> prismaModel(workflow[i])]

-----------------------------------------------------------------------------
(* utils/helpers.ts: mapFieldType and mapZodType, and the generators that use them *)

\* the TypeScript type written for a property type; a type outside the cases is
\* returned as it is
mapFieldType(type) ==
    CASE type \in {"string", "number", "boolean", "bigint", "symbol", "undefined", "null",
                   "any", "unknown", "void", "never"} -> type
      [] type = "object" -> "Record<string, any>"
      [] type = "array" -> "any[]"
      [] type = "function" -> "(...args: any[]) => any"
      [] type = "date" -> "Date"
      [] type = "json" -> "Record<string, any>"
      [] OTHER -> type

\* one call of a zod expression: call is its text up to the argument, value, text
\* and values the argument as the rule gave it
Frag(c, v, txt, vals) == [call |-> c, value |-> v, text |-> txt, values |-> vals]

\* a handler of one rule in which an enum rule is appended like any other rule
zodRuleAppendingEnum(base, rule) ==
    CASE rule.type = "minLength" -> Append(base, Frag(".min", rule.value, <<>>, <<>>))
      [] rule.type = "maxLength" -> Append(base, Frag(".max", rule.value, <<>>, <<>>))
      [] rule.type = "pattern" -> Append(base, Frag(".regex", 0, rule.text, <<>>))
      [] rule.type = "min" -> Append(base, Frag(".min", rule.value, <<>>, <<>>))
      [] rule.type = "max" -> Append(base, Frag(".max", rule.value, <<>>, <<>>))
      [] rule.type = "email" -> Append(base, Frag(".email", 0, <<>>, <<>>))
      [] rule.type = "uuid" -> Append(base, Frag(".uuid", 0, <<>>, <<>>))
      [] rule.type = "enum" -> Append(base, Frag("z.enum", 0, <<>>, rule.values))
      [] OTHER -> base

\* the switch over rule.type inside the loop of mapZodType, applied to base
zodRule(base, rule) ==
    CASE rule.type = "minLength" -> Append(base, Frag(".min", rule.value, <<>>, <<>>))
      [] rule.type = "maxLength" -> Append(base, Frag(".max", rule.value, <<>>, <<>>))
      [] rule.type = "pattern" -> Append(base, Frag(".regex", 0, rule.text, <<>>))
      [] rule.type = "min" -> Append(base, Frag(".min", rule.value, <<>>, <<>>))
      [] rule.type = "max" -> Append(base, Frag(".max", rule.value, <<>>, <<>>))
      [] rule.type = "email" -> Append(base, Frag(".email", 0, <<>>, <<>>))
      [] rule.type = "uuid" -> Append(base, Frag(".uuid", 0, <<>>, <<>>))
      [] rule.type = "enum" -> <<Frag("z.enum", 0, <<>>, rule.values)>>
      [] OTHER -> base

RECURSIVE zodRules(_, _, _)
zodRules(base, validation, k) ==
    IF k > Len(validation) THEN base
    ELSE zodRules(zodRule(base, validation[k]), validation, k + 1)

\* mapZodType(prop): the expression as the list of its calls
mapZodType(prop) ==
    LET base == <<Frag(CASE prop.type = "string" -> "z.string"
                         [] prop.type = "number" -> "z.number"
                         [] prop.type = "boolean" -> "z.boolean"
                         [] OTHER -> "z.any", 0, <<>>, <<>>)>>
        nullable == IF prop.nullable THEN Append(base, Frag(".nullable", 0, <<>>, <<>>))
                    ELSE base
    IN  zodRules(nullable, prop.validation, 1)

\* the `<controller>: { connect: { id: string } }` line generateType writes for
\* a relation that is not declared as parent and is no many-to-many relation
connectLine(relation) ==
    IF ~relation.isParent /\ relation.relation \in {"one-to-one", "one-to-many"}
    THEN <<[name |-> relation.controller, optional |-> FALSE, type |-> "connect",
            orNull |-> FALSE]>>
    ELSE <<>>

\* the lines of `export type <Name>Type = {...}` in generateType: one per
\* property, then the connect lines of the relations; nothing at all for an
\* entity without properties, for which generateType returns at once
typeOf(w) ==
    IF Len(w.props) = 0 THEN <<>>
    ELSE [j \in 1..Len(w.props) |->
             [name |-> w.props[j].name, optional |-> w.props[j].nullable,
              type |-> mapFieldType(w.props[j].type), orNull |-> w.props[j].nullable]]
         \o flatten([j \in 1..Len(w.relations) |-> connectLine(w.relations[j])])

\* the entries of `const <name>Schema = z.object({...})` in createNew and update
createNew(w) ==
    [j \in 1..Len(w.props) |-> [name |-> w.props[j].name, zod |-> mapZodType(w.props[j])]]

-----------------------------------------------------------------------------
(* The controller template: generateControllerTemplate and its own mapZodType *)

\* the base expression of the template's mapZodType; every type tag validation
\* accepts is in lower case, so prop.type.toLowerCase() is the tag itself
templateBase(type) ==
    CASE type = "string" -> <<Frag("z.string", 0, <<>>, <<>>)>>
      [] type \in {"number", "int"} ->
            <<Frag("z.number", 0, <<>>, <<>>), Frag(".int", 0, <<>>, <<>>)>>
      [] type = "float" -> <<Frag("z.number", 0, <<>>, <<>>)>>
      [] type = "boolean" -> <<Frag("z.boolean", 0, <<>>, <<>>)>>
      [] type \in {"date", "datetime"} -> <<Frag("z.date", 0, <<>>, <<>>)>>
      [] type = "json" ->
            <<Frag("z.object", 0, <<>>, <<>>), Frag(".passthrough", 0, <<>>, <<>>)>>
      [] OTHER -> <<Frag("z.string", 0, <<>>, <<>>)>>

\* one pass of the loop over prop.validation in the template's mapZodType
templateRule(zodType, validation) ==
    CASE validation.type \in {"minLength", "min"} ->
            Append(zodType, Frag(".min", validation.value, <<>>, <<>>))
      [] validation.type \in {"maxLength", "max"} ->
            Append(zodType, Frag(".max", validation.value, <<>>, <<>>))
      [] validation.type = "email" -> Append(zodType, Frag(".email", 0, <<>>, <<>>))
      [] validation.type = "url" -> Append(zodType, Frag(".url", 0, <<>>, <<>>))
      [] validation.type = "uuid" -> Append(zodType, Frag(".uuid", 0, <<>>, <<>>))
      [] validation.type = "pattern" ->
            Append(zodType, Frag(".regex", 0, validation.text, <<>>))
      [] OTHER -> zodType

RECURSIVE templateRules(_, _, _)
templateRules(zodType, validation, k) ==
    IF k > Len(validation) THEN zodType
    ELSE templateRules(templateRule(zodType, validation[k]), validation, k + 1)

\* mapZodType(prop) of the template: base, rules, and .optional() when nullable
mapZodTypeOfTemplate(prop) ==
    LET zodType == templateRules(templateBase(prop.type), prop.validation, 1)
    IN  IF prop.nullable THEN Append(zodType, Frag(".optional", 0, <<>>, <<>>))
        ELSE zodType

\* the entries of `const create<Name>Schema = z.object({...})` in
\* generateCreateWithValidation, which the template uses when there are props
generateCreateWithValidation(w) ==
    [j \in 1..Len(w.props) |->
        [name |-> w.props[j].name, zod |-> mapZodTypeOfTemplate(w.props[j])]]

-----------------------------------------------------------------------------
(* services/workflow.service.ts: the awaited steps of generateWorkflow *)

Op(o, i) == [op |-> o, ent |-> i]

beforeEntities == <<"ensureDir", "generateTSConfigWithComments", "generateUtils">>
perEntity == <<"generateType", "generatePrismaService", "generateController", "generateRoute">>
afterEntities ==
    <<"generatePrismaClientFile", "generateSchemaPrisma", "generateAppTs",
      "generateServerTs", "generatePackageJson", "generateEnvFile", "generateReadme">>

\* the optional feature generators generateWorkflow(data) calls
featureSteps(data) ==
    (IF data.features.defined /\ data.features.testDataSeeding
     THEN <<"generateTestDataSeeder">> ELSE <<>>)
    \o (IF data.features.defined /\ data.features.apiDocumentation
        THEN <<"generateSwaggerDocs">> ELSE <<>>)

\* the number of generator calls generateWorkflow(data) awaits
NumSteps(data) ==
    Len(beforeEntities) + Len(perEntity) * Len(data.workflows) + Len(afterEntities)
    + Len(featureSteps(data))

\* an order of the calls in which the optional feature generators come before
\* the project files
StepAtFeaturesFirst(data, k) ==
    LET b == Len(beforeEntities)
        e == Len(perEntity) * Len(data.workflows)
        f == Len(featureSteps(data))
    IN  IF k <= b THEN Op(beforeEntities[k], 0)
        ELSE IF k <= b + e
        THEN Op(perEntity[((k - b - 1) % Len(perEntity)) + 1],
                ((k - b - 1) \div Len(perEntity)) + 1)
        ELSE IF k <= b + e + f THEN Op(featureSteps(data)[k - b - e], 0)
        ELSE Op(afterEntities[k - b - e - f], 0)

\* the k-th generator call generateWorkflow(data) awaits, and the entity it is for
StepAt(data, k) ==
    LET b == Len(beforeEntities)
        e == Len(perEntity) * Len(data.workflows)
        a == Len(afterEntities)
    IN  IF k <= b THEN Op(beforeEntities[k], 0)
        ELSE IF k <= b + e
        THEN Op(perEntity[((k - b - 1) % Len(perEntity)) + 1],
                ((k - b - 1) \div Len(perEntity)) + 1)
        ELSE IF k <= b + e + a THEN Op(afterEntities[k - b - e], 0)
        ELSE Op(featureSteps(data)[k - b - e - a], 0)

\* a file below baseDir: its kind and the entity name in its file name
File(k, n) == [kind |-> k, name |-> n]

-----------------------------------------------------------------------------
(* Request bodies *)

SeqUpTo(S, n) == UNION {[1..k -> S] : k \in 0..n}

user == <<"u","s","e","r">>
User == <<"U","s","e","r">>
USER == <<"U","S","E","R">>
order == <<"o","r","d","e","r">>
ghost == <<"g","h","o","s","t">>
int == <<"i","n","t">>
age == <<"a","g","e">>
Age == <<"A","g","e">>
Shop == <<"S","h","o","p">>

Cardinalities == {"one-to-one", "one-to-many", "many-to-many"}

Relation(card, parent, target) ==
    [relation |-> card, isParent |-> parent, controller |-> target]
RelationsTo(targets) ==
    {Relation(c, p, t) : c \in Cardinalities, p \in BOOLEAN, t \in targets}

Property(n, t, nl, v) == [name |-> n, type |-> t, nullable |-> nl, validation |-> v]

NoControllers == [defined |-> FALSE, name |-> <<>>]
Controllers(n) == [defined |-> TRUE, name |-> n]

Entity(n, c, ps, rs) == [name |-> n, controllers |-> c, props |-> ps, relations |-> rs]

NoFeatures == [defined |-> FALSE, testDataSeeding |-> FALSE, apiDocumentation |-> FALSE]
AllFeatures == [defined |-> TRUE, testDataSeeding |-> TRUE, apiDocumentation |-> TRUE]

Body(n, ws, f) == [name |-> n, workflows |-> ws, features |-> f]

\* the pipeline family: entities with or without a property, with or without the
\* controllers key, related to each other
ageNumber == Property(age, "number", FALSE, <<>>)
PipelineEntities ==
    {Entity(n, NoControllers, ps, rs) :
        n \in {user, User, order},
        ps \in {<<>>, <<ageNumber>>},
        rs \in SeqUpTo(RelationsTo({user, order}), MaxRelations)}
\* every entity of the body carries the controllers key
WithControllers(ws) ==
    [i \in 1..Len(ws) |-> [ws[i] EXCEPT !.controllers = Controllers(ws[i].name)]]
\* the body as sent: without the controllers key, with it, and with it and the
\* optional features enabled
PipelineVariants == {"plain", "controllers", "features"}
PipelineBody(ws, v) ==
    Body(Shop,
         IF v = "plain" THEN ws ELSE WithControllers(ws),
         IF v = "features" THEN AllFeatures ELSE NoFeatures)

\* the validation family: entity names that collide or are reserved, properties
\* that collide or carry a rule their type does not allow, dangling relations
ageMin == Property(age, "number", FALSE, <<Rule("min", 0, <<>>, <<>>)>>)
AgeString == Property(Age, "string", TRUE, <<Rule("min", 0, <<>>, <<>>)>>)
ValidationEntities ==
    {Entity(n, NoControllers, ps, rs) :
        n \in {user, User, order, int},
        ps \in SeqUpTo({ageMin, AgeString}, MaxProps),
        rs \in SeqUpTo({Relation("one-to-many", p, t) :
                            p \in BOOLEAN, t \in {user, order, ghost}}, MaxRelations)}
\* the relation-graph family: entities a, b, c and every small set of relations
\* among them, targets written in either letter case
GraphNames == << <<"a">>, <<"b">>, <<"c">>, <<"d">>, <<"e">> >>
GraphTargets == { <<"a">>, <<"b">>, <<"c">>, <<"A">> }
\* owning edges of both cardinalities, a many-to-many edge and a non-owning edge
GraphRelations ==
    {Relation("one-to-one", TRUE, t) : t \in GraphTargets}
    \cup {Relation("one-to-many", TRUE, t) : t \in GraphTargets}
    \cup {Relation("many-to-many", TRUE, t) : t \in GraphTargets}
    \cup {Relation("one-to-many", FALSE, t) : t \in GraphTargets}

\* the owners of a flat list of relations: entities in declaration order, at most
\* MaxGraphRelations relations each
GraphOwners(n, t) ==
    {o \in [1..t -> 1..n] :
        /\ \A i \in 1..(t - 1) : o[i] <= o[i + 1]
        /\ \A e \in 1..n : Cardinality({i \in 1..t : o[i] = e}) <= MaxGraphRelations}

RECURSIVE ownedBy(_, _, _, _)
ownedBy(rs, o, e, i) ==
    IF i > Len(rs) THEN <<>>
    ELSE (IF o[i] = e THEN <<rs[i]>> ELSE <<>>) \o ownedBy(rs, o, e, i + 1)

GraphBody(n, rs, o) ==
    Body(Shop,
         [e \in 1..n |-> Entity(GraphNames[e], NoControllers, <<>>, ownedBy(rs, o, e, 1))],
         NoFeatures)

\* the rule family: one entity with one property of each kind of type, a custom
\* tag among them, carrying rules of every variant in every order
money == <<"m","o","n","e","y">>
RuleSamples ==
    {Rule("minLength", 2, <<>>, <<>>), Rule("maxLength", 5, <<>>, <<>>),
     Rule("min", 0, <<>>, <<>>), Rule("max", 9, <<>>, <<>>),
     Rule("pattern", 0, <<"a">>, <<>>), Rule("pattern", 0, <<"(">>, <<>>),
     Rule("email", 0, <<>>, <<>>), Rule("url", 0, <<>>, <<>>), Rule("uuid", 0, <<>>, <<>>),
     Rule("enum", 0, <<>>, <<"x">>), Rule("enum", 0, <<>>, <<"y", "z">>),
     Rule("startsWith", 0, <<"a">>, <<>>), Rule("endsWith", 0, <<"a">>, <<>>),
     Rule("custom", 0, <<"f">>, <<>>)}
RuleTypes == {"string", "number", "int", "float", "date", "datetime", "boolean", "money"}
RuleBody(t, nl, v, f) ==
    Body(Shop, <<Entity(order, Controllers(order), <<Property(age, t, nl, v)>>, <<>>)>>, f)

\* the name family: a project, an entity and a property named by each kind of name
NameSamples ==
    { <<>>, <<" ">>, <<"1","a">>, user, <<"c","l","a","s","s">>, <<"C","l","a","s","s">>,
      <<"c","o","n","s","t","r","u","c","t","o","r">>, <<"p","r","o","t","o","t","y","p","e">>,
      <<"t","o","S","t","r","i","n","g">>, <<"v","a","l","u","e","O","f">>,
      <<"s","e","l","e","c","t">> }
NameBody(project, entity, property) ==
    Body(project,
         <<Entity(entity, Controllers(entity), <<Property(property, "string", FALSE, <<>>)>>,
                  <<>>)>>,
         NoFeatures)

\* the size family: requests of 0 to MaxCount entities, all valid and distinct
SizeBody(n, v) ==
    PipelineBody([k \in 1..n |-> Entity(<<"e", LowerAlpha[k]>>, NoControllers, <<>>, <<>>)],
                 v)

-----------------------------------------------------------------------------
(* State machine *)

\* `${datePart}_${timePart}_${randomPart}`: the second of the clock and the
\* six characters cut from Math.random().toString(36)
generateFolderName(now, random) == <<now, random>>
FolderNames == {generateFolderName(now, r) : now \in 1..MaxSeconds, r \in 1..MaxRandom}
NoDir == <<>>

NoResponse == [status |-> 0, message |-> "", errors |-> <<>>]
Response(st, msg, errs) == [status |-> st, message |-> msg, errors |-> errs]

\* what generateWorkflow has written below baseDir
Artifacts ==
    [genDir |-> genDir, files |-> files, schema |-> schemaPrisma, types |-> typeLines,
     controllers |-> zodSchemas]
NoRun == [genDir |-> NoDir, files |-> {}, schema |-> <<>>, types |-> <<>>,
          controllers |-> <<>>]

\* package.json and src/app.ts as the sets of their parts; an empty set is a file
\* that does not exist, and the generator of the file writes its base part
NoSections == [packageJson |-> {}, appTs |-> {}]

\* addSeederDependencies: when package.json exists it is read, given the faker
\* dependency and the seed scripts, and written back
addSeederDependencies(s) ==
    IF s.packageJson # {} THEN [s EXCEPT !.packageJson = @ \cup {"seed"}] ELSE s

\* addSwaggerDependencies: likewise for the swagger dependencies and docs scripts
addSwaggerDependencies(s) ==
    IF s.packageJson # {} THEN [s EXCEPT !.packageJson = @ \cup {"docs"}] ELSE s

\* updateAppWithSwagger: when src/app.ts exists it is read, given the import and
\* the call of setupSwagger, and written back
updateAppWithSwagger(s) ==
    IF s.appTs # {} THEN [s EXCEPT !.appTs = @ \cup {"swagger"}] ELSE s

\* a request as it reaches the router
StartRequest ==
    /\ pc = "validate"
    /\ step = 0
    /\ validationErrors = <<>>
    /\ response = NoResponse
    /\ baseDirExists = FALSE
    /\ files = {}
    /\ schemaPrisma = <<>>
    /\ returned = FALSE
    /\ listeners = FALSE
    /\ finished = FALSE
    /\ genDir = NoDir
    /\ cleanupRan = FALSE
    /\ typeLines = [i \in 1..Len(body.workflows) |-> <<>>]
    /\ zodSchemas = [i \in 1..Len(body.workflows) |-> <<>>]
    /\ sections = NoSections

\* the first request of a body
Start ==
    /\ StartRequest
    /\ otherDirs = {}
    /\ firstRun = NoRun

Init ==
    /\ \E ws \in SeqUpTo(PipelineEntities, MaxEntities), v \in PipelineVariants :
           body = PipelineBody(ws, v)
    /\ Start

InitValidation ==
    /\ \E ws \in SeqUpTo(ValidationEntities, MaxEntities) : body = Body(Shop, ws, NoFeatures)
    /\ Start

InitRules ==
    /\ \E t \in RuleTypes, nl \in BOOLEAN, v \in SeqUpTo(RuleSamples, MaxRules),
          f \in {NoFeatures, AllFeatures} :
           body = RuleBody(t, nl, v, f)
    /\ Start

InitNames ==
    /\ \E project \in NameSamples, entity \in NameSamples, property \in NameSamples :
           body = NameBody(project, entity, property)
    /\ Start

\* one valid request, on a server that handles other requests as well
InitConcurrent ==
    /\ \E v \in PipelineVariants :
           body = PipelineBody(<<Entity(user, NoControllers, <<ageNumber>>, <<>>)>>, v)
    /\ Start

\* a shop of two entities with properties and a relation between them, its
\* target written as the entity is named or in capitals
title == Property(<<"t","i","t","l","e">>, "string", TRUE, <<>>)
InitTwice ==
    /\ \E r \in RelationsTo({user, USER}), v \in PipelineVariants :
           body = PipelineBody(<<Entity(user, NoControllers, <<ageNumber>>, <<>>),
                                 Entity(order, NoControllers, <<ageMin, title>>, <<r>>)>>,
                               v)
    /\ Start

\* the type family: one property of each type tag validation accepts, with at
\* most one rule
InitTypes ==
    /\ \E t \in PropertyTypes, nl \in BOOLEAN, v \in SeqUpTo(RuleSamples, 1),
          f \in {NoFeatures, AllFeatures} :
           body = RuleBody(t, nl, v, f)
    /\ Start

InitSize ==
    /\ \E n \in 0..MaxCount, v \in PipelineVariants : body = SizeBody(n, v)
    /\ Start

InitGraph ==
    /\ \E n \in 1..MaxGraphEntities, t \in 0..MaxGraphTotal :
           \E rs \in [1..t -> GraphRelations], o \in GraphOwners(n, t) :
               body = GraphBody(n, rs, o)
    /\ Start

\* a middleware that throws its ApiError outside the try block: the error escapes
\* and next is never called
validateWorkflowRequestThrowing ==
    /\ pc = "validate"
    /\ IF ~safeParse(body)
       THEN validationErrors' = <<>> /\ pc' = "crashed"
       ELSE LET report == validationReport(body) IN
            /\ validationErrors' = report
            /\ pc' = (IF Len(report) > 0 THEN "crashed" ELSE "handle")
    /\ UNCHANGED <<body, step, response, baseDirExists, files, schemaPrisma, returned,
                   listeners, finished, genDir, otherDirs, firstRun, cleanupRan, typeLines,
                   zodSchemas,
                   sections>>

\* a middleware that records the report and calls next() whatever it holds
validateWorkflowRequestNext ==
    /\ pc = "validate"
    /\ validationErrors' = (IF safeParse(body) THEN validationReport(body) ELSE <<>>)
    /\ pc' = "handle"
    /\ UNCHANGED <<body, step, response, baseDirExists, files, schemaPrisma, returned,
                   listeners, finished, genDir, otherDirs, firstRun, cleanupRan, typeLines,
                   zodSchemas,
                   sections>>

\* validateWorkflowRequest: next() when the report is empty, next(ApiError 400)
\* otherwise, which errorHandler turns into the response
validateWorkflowRequest ==
    /\ pc = "validate"
    /\ IF ~safeParse(body)
       THEN /\ validationErrors' = <<>>
            /\ response' = Response(400, "Invalid request format", <<>>)
            /\ pc' = "rejected"
       ELSE LET report == validationReport(body) IN
            /\ validationErrors' = report
            /\ IF Len(report) > 0
               THEN /\ response' = Response(400, "Validation failed", report)
                    /\ pc' = "rejected"
               ELSE /\ response' = response
                    /\ pc' = "handle"
    /\ UNCHANGED <<body, step, baseDirExists, files, schemaPrisma, returned,
                   listeners, finished, genDir, otherDirs, firstRun, cleanupRan, typeLines,
                   zodSchemas,
                   sections>>

\* handleWorkflowGenerate up to the first await of generateWorkflow
handleWorkflowGenerate ==
    /\ pc = "handle"
    /\ IF Len(body.workflows) = 0 \/ Len(body.workflows) > MaxWorkflows
       THEN /\ response' = Response(400, "Bad entity count", <<>>)
            /\ pc' = "rejected"
            /\ step' = step
            /\ genDir' = genDir
       ELSE /\ response' = response
            /\ pc' = "generating"
            /\ step' = 1
            /\ genDir' \in FolderNames
    /\ UNCHANGED <<body, validationErrors, baseDirExists, files, schemaPrisma,
                   returned, listeners, finished, otherDirs, firstRun, cleanupRan, typeLines,
                   zodSchemas,
                   sections>>


\* the generator call generateWorkflow is awaiting
Awaiting(op) ==
    /\ pc = "generating"
    /\ step <= NumSteps(body)
    /\ StepAt(body, step).op = op

\* the awaited generator resolves: the next one is called, or generateWorkflow
\* returns baseDir and handleWorkflowGenerate runs on to await archive.finalize()
Resolves ==
    /\ step' = step + 1
    /\ IF step < NumSteps(body)
       THEN pc' = "generating" /\ returned' = returned /\ response' = response
       ELSE /\ returned' = TRUE
            /\ IF baseDirExists
               THEN pc' = "archiving" /\ response' = response
               ELSE /\ pc' = "failed"
                    /\ response' = Response(500, "Failed to generate project files", <<>>)

\* a generateWorkflow that catches the error of a step and goes on with the next
ThrowsAndGoesOn == Resolves

\* the awaited generator throws: generateWorkflow has no catch, so catchAsync
\* hands the error to errorHandler
Throws ==
    /\ pc' = "failed"
    /\ response' = Response(500, "Internal server error", <<>>)
    /\ UNCHANGED <<step, returned>>

\* what no generator step changes
Untouched ==
    UNCHANGED <<body, validationErrors, listeners, finished, genDir, otherDirs, firstRun, cleanupRan>>

currentEntity == body.workflows[StepAt(body, step).ent]

ensureDir ==
    /\ Awaiting("ensureDir")
    /\ baseDirExists' = TRUE
    /\ Resolves
    /\ Untouched
    /\ UNCHANGED <<files, schemaPrisma, typeLines, zodSchemas,
                   sections>>

generateTSConfigWithComments ==
    /\ Awaiting("generateTSConfigWithComments")
    /\ files' = files \cup {File("tsconfig", <<>>)}
    /\ Resolves
    /\ Untouched
    /\ UNCHANGED <<baseDirExists, schemaPrisma, typeLines, zodSchemas,
                   sections>>

generateUtils ==
    /\ Awaiting("generateUtils")
    /\ files' = files \cup {File("utils", <<>>)}
    /\ Resolves
    /\ Untouched
    /\ UNCHANGED <<baseDirExists, schemaPrisma, typeLines, zodSchemas,
                   sections>>

\* generateType returns before writing when the entity has no property
generateType ==
    /\ Awaiting("generateType")
    /\ files' = files \cup (IF Len(currentEntity.props) = 0 THEN {}
                          ELSE {File("type", currentEntity.name)})
    /\ typeLines' = [typeLines EXCEPT ![StepAt(body, step).ent] = typeOf(currentEntity)]
    /\ Resolves
    /\ Untouched
    /\ UNCHANGED <<baseDirExists, schemaPrisma, zodSchemas,
                   sections>>

\* generatePrismaService validates the entity name once more, and throws
generatePrismaService ==
    /\ Awaiting("generatePrismaService")
    /\ IF Len(validateEntityName(currentEntity.name)) > 0
       THEN Throws /\ files' = files
       ELSE Resolves /\ files' = files \cup {File("service", currentEntity.name)}
    /\ Untouched
    /\ UNCHANGED <<baseDirExists, schemaPrisma, typeLines, zodSchemas,
                   sections>>

generateController ==
    /\ Awaiting("generateController")
    /\ files' = files \cup {File("controller", currentEntity.name)}
    /\ zodSchemas' = [zodSchemas EXCEPT ![StepAt(body, step).ent] = createNew(currentEntity)]
    /\ Resolves
    /\ Untouched
    /\ UNCHANGED <<baseDirExists, schemaPrisma, typeLines, sections>>

\* generateController built on generateControllerTemplate
generateControllerFromTemplate ==
    /\ Awaiting("generateController")
    /\ files' = files \cup {File("controller", currentEntity.name)}
    /\ zodSchemas' = [zodSchemas EXCEPT
                         ![StepAt(body, step).ent] = generateCreateWithValidation(currentEntity)]
    /\ Resolves
    /\ Untouched
    /\ UNCHANGED <<baseDirExists, schemaPrisma, typeLines, sections>>

generateRoute ==
    /\ Awaiting("generateRoute")
    /\ files' = files \cup {File("route", currentEntity.name)}
    /\ Resolves
    /\ Untouched
    /\ UNCHANGED <<baseDirExists, schemaPrisma, typeLines, zodSchemas,
                   sections>>

generatePrismaClientFile ==
    /\ Awaiting("generatePrismaClientFile")
    /\ files' = files \cup {File("prismaClient", <<>>)}
    /\ Resolves
    /\ Untouched
    /\ UNCHANGED <<baseDirExists, schemaPrisma, typeLines, zodSchemas,
                   sections>>

\* generateSchemaPrisma builds every model, then writes prisma/schema.prisma
generateSchemaPrisma ==
    /\ Awaiting("generateSchemaPrisma")
    /\ IF schemaThrows(body.workflows)
       THEN Throws /\ UNCHANGED <<files, schemaPrisma>>
       ELSE /\ Resolves
            /\ files' = files \cup {File("schema", <<>>)}
            /\ schemaPrisma' = schemaModels(body.workflows)
    /\ Untouched
    /\ UNCHANGED <<baseDirExists, typeLines, zodSchemas,
                   sections>>

generateAppTs ==
    /\ Awaiting("generateAppTs")
    /\ files' = files \cup {File("app", <<>>)}
    /\ Resolves
    /\ Untouched
    /\ UNCHANGED <<baseDirExists, schemaPrisma, typeLines, zodSchemas>>
    /\ sections' = [sections EXCEPT !.appTs = {"base"}]

generateServerTs ==
    /\ Awaiting("generateServerTs")
    /\ files' = files \cup {File("server", <<>>)}
    /\ Resolves
    /\ Untouched
    /\ UNCHANGED <<baseDirExists, schemaPrisma, typeLines, zodSchemas,
                   sections>>

generatePackageJson ==
    /\ Awaiting("generatePackageJson")
    /\ files' = files \cup {File("packageJson", <<>>)}
    /\ Resolves
    /\ Untouched
    /\ UNCHANGED <<baseDirExists, schemaPrisma, typeLines, zodSchemas>>
    /\ sections' = [sections EXCEPT !.packageJson = {"base"}]

generateEnvFile ==
    /\ Awaiting("generateEnvFile")
    /\ files' = files \cup {File("env", <<>>)}
    /\ Resolves
    /\ Untouched
    /\ UNCHANGED <<baseDirExists, schemaPrisma, typeLines, zodSchemas,
                   sections>>

generateReadme ==
    /\ Awaiting("generateReadme")
    /\ files' = files \cup {File("readme", <<>>)}
    /\ Resolves
    /\ Untouched
    /\ UNCHANGED <<baseDirExists, schemaPrisma, typeLines, zodSchemas,
                   sections>>

generateTestDataSeeder ==
    /\ Awaiting("generateTestDataSeeder")
    /\ files' = files \cup {File("seed", <<>>)}
    /\ Resolves
    /\ Untouched
    /\ UNCHANGED <<baseDirExists, schemaPrisma, typeLines, zodSchemas>>
    /\ sections' = addSeederDependencies(sections)

generateSwaggerDocs ==
    /\ Awaiting("generateSwaggerDocs")
    /\ files' = files \cup {File("swagger", <<>>)}
    /\ Resolves
    /\ Untouched
    /\ UNCHANGED <<baseDirExists, schemaPrisma, typeLines, zodSchemas>>
    /\ sections' = updateAppWithSwagger(addSwaggerDependencies(sections))

\* a filesystem operation of the awaited generator rejects
ioError ==
    /\ pc = "generating"
    /\ step <= NumSteps(body)
    /\ Throws
    /\ Untouched
    /\ UNCHANGED <<baseDirExists, files, schemaPrisma, typeLines, zodSchemas,
                   sections>>

\* deleteGeneratedFolder(baseDir): fs.rm of the parent folder, whose failure is
\* caught and logged
deleteGeneratedFolder ==
    /\ cleanupRan' = TRUE
    /\ \E removed \in BOOLEAN :
          IF removed /\ baseDirExists
          THEN /\ baseDirExists' = FALSE /\ files' = {} /\ schemaPrisma' = <<>>
               /\ typeLines' = [i \in DOMAIN typeLines |-> <<>>]
               /\ zodSchemas' = [i \in DOMAIN zodSchemas |-> <<>>]
               /\ sections' = NoSections
          ELSE UNCHANGED <<baseDirExists, files, schemaPrisma, typeLines, zodSchemas,
                   sections>>

\* await archive.finalize() resolves: the finish and error listeners are registered
finalizeResolves ==
    /\ pc = "archiving"
    /\ pc' = "registered"
    /\ listeners' = TRUE
    /\ UNCHANGED <<body, step, validationErrors, response, baseDirExists, files,
                   schemaPrisma, returned, finished, genDir, otherDirs, firstRun, cleanupRan,
                   typeLines, zodSchemas,
                   sections>>

\* await archive.finalize() rejects: cleanup, then ApiError 500
finalizeRejects ==
    /\ pc = "archiving"
    /\ deleteGeneratedFolder
    /\ pc' = "failed"
    /\ response' = Response(500, "Failed to package project files", <<>>)
    /\ UNCHANGED <<body, step, validationErrors, returned, listeners, finished,
                   genDir, otherDirs, firstRun>>

\* the archive emits error while archive.finalize() is pending: the listener of
\* archive.on('error') throws inside the emitter, outside the try of the handler
archiveError ==
    /\ pc = "archiving"
    /\ pc' = "crashed"
    /\ UNCHANGED <<body, step, validationErrors, response, baseDirExists, files,
                   schemaPrisma, returned, listeners, finished, genDir, otherDirs, firstRun,
                   cleanupRan, typeLines, zodSchemas,
                   sections>>

\* the response stream emits finish or error; a registered listener cleans up
responseEnds ==
    /\ pc \in {"archiving", "registered"}
    /\ ~finished
    /\ finished' = TRUE
    /\ response' = Response(200, "zip", <<>>)
    /\ IF listeners THEN deleteGeneratedFolder
       ELSE UNCHANGED <<baseDirExists, files, schemaPrisma, typeLines, zodSchemas,
                        cleanupRan,
                   sections>>
    /\ UNCHANGED <<body, pc, step, validationErrors, returned, listeners, genDir,
                   otherDirs, firstRun>>

\* another request reaches generateWorkflow: generateFolderName() gives it a
\* folder name, in the same second or not, and fs.ensureDir accepts any name
otherRequest ==
    /\ \E now \in 1..MaxSeconds, random \in 1..MaxRandom :
           otherDirs' = otherDirs \cup {generateFolderName(now, random)}
    /\ UNCHANGED <<body, pc, step, validationErrors, response, baseDirExists, files,
                   schemaPrisma, returned, listeners, finished, genDir, cleanupRan,
                   typeLines, zodSchemas, firstRun,
                   sections>>

\* another request's deleteGeneratedFolder: fs.rm of generated/<its folder name>
otherCleanup ==
    /\ \E d \in otherDirs :
           IF d = genDir /\ baseDirExists
           THEN /\ baseDirExists' = FALSE /\ files' = {} /\ schemaPrisma' = <<>>
                /\ typeLines' = [i \in DOMAIN typeLines |-> <<>>]
                /\ zodSchemas' = [i \in DOMAIN zodSchemas |-> <<>>]
                /\ sections' = NoSections
           ELSE UNCHANGED <<baseDirExists, files, schemaPrisma, typeLines, zodSchemas,
                   sections>>
    /\ UNCHANGED <<body, pc, step, validationErrors, response, returned, listeners,
                   finished, genDir, otherDirs, firstRun, cleanupRan>>

\* the same body is posted once more: what the first compilation returned is
\* kept for comparison and the new request starts at the router
generateAgain ==
    /\ pc = "archiving" /\ returned /\ ~finished
    /\ firstRun = NoRun
    /\ firstRun' = Artifacts
    /\ pc' = "validate"
    /\ step' = 0
    /\ validationErrors' = <<>>
    /\ response' = NoResponse
    /\ baseDirExists' = FALSE
    /\ files' = {}
    /\ schemaPrisma' = <<>>
    /\ returned' = FALSE
    /\ listeners' = FALSE
    /\ finished' = FALSE
    /\ genDir' = NoDir
    /\ cleanupRan' = FALSE
    /\ typeLines' = [i \in 1..Len(body.workflows) |-> <<>>]
    /\ zodSchemas' = [i \in 1..Len(body.workflows) |-> <<>>]
    /\ sections' = NoSections
    /\ UNCHANGED <<body, otherDirs>>

Next ==
    \/ validateWorkflowRequest
    \/ handleWorkflowGenerate
    \/ ensureDir
    \/ generateTSConfigWithComments
    \/ generateUtils
    \/ generateType
    \/ generatePrismaService
    \/ generateController
    \/ generateRoute
    \/ generatePrismaClientFile
    \/ generateSchemaPrisma
    \/ generateAppTs
    \/ generateServerTs
    \/ generatePackageJson
    \/ generateEnvFile
    \/ generateReadme
    \/ generateTestDataSeeder
    \/ generateSwaggerDocs
    \/ ioError
    \/ finalizeResolves
    \/ finalizeRejects
    \/ archiveError
    \/ responseEnds

Spec == Init /\ [][Next]_vars

\* the validation middleware alone, over the validation and relation-graph families
NextValidation == validateWorkflowRequest

SpecValidation == InitValidation /\ [][NextValidation]_vars

SpecGraph == InitGraph /\ [][NextValidation]_vars

\* the pipeline of one request where every pending promise settles and the
\* response stream ends
SpecCleanup == InitConcurrent /\ [][Next]_vars /\ WF_vars(Next)

\* the pipeline of a body that is compiled, and then compiled once more
NextTwice == Next \/ generateAgain
SpecTwice == InitTwice /\ [][NextTwice]_vars

\* the pipeline of one request while other requests come and go
NextConcurrent == Next \/ otherRequest \/ otherCleanup
SpecConcurrent == InitConcurrent /\ [][NextConcurrent]_vars

\* the pipeline of a request during which no filesystem operation fails
NextWithoutIoError ==
    \/ validateWorkflowRequest
    \/ handleWorkflowGenerate
    \/ ensureDir
    \/ generateTSConfigWithComments
    \/ generateUtils
    \/ generateType
    \/ generatePrismaService
    \/ generateController
    \/ generateRoute
    \/ generatePrismaClientFile
    \/ generateSchemaPrisma
    \/ generateAppTs
    \/ generateServerTs
    \/ generatePackageJson
    \/ generateEnvFile
    \/ generateReadme
    \/ generateTestDataSeeder
    \/ generateSwaggerDocs
    \/ finalizeResolves
    \/ finalizeRejects
    \/ archiveError
    \/ responseEnds
SpecWithoutIoError == InitTwice /\ [][NextWithoutIoError]_vars

\* the pipeline with the controllers built from the template, over the type family
NextTemplate ==
    \/ validateWorkflowRequest
    \/ handleWorkflowGenerate
    \/ ensureDir
    \/ generateTSConfigWithComments
    \/ generateUtils
    \/ generateType
    \/ generatePrismaService
    \/ generateControllerFromTemplate
    \/ generateRoute
    \/ generatePrismaClientFile
    \/ generateSchemaPrisma
    \/ generateAppTs
    \/ generateServerTs
    \/ generatePackageJson
    \/ generateEnvFile
    \/ generateReadme
    \/ generateTestDataSeeder
    \/ generateSwaggerDocs
    \/ ioError
    \/ finalizeResolves
    \/ finalizeRejects
    \/ archiveError
    \/ responseEnds
SpecTemplate == InitTypes /\ [][NextTemplate]_vars

\* the whole pipeline over the size family
SpecSize == InitSize /\ [][Next]_vars

\* the whole pipeline over the rule family, the middleware over the name family
SpecRules == InitRules /\ [][Next]_vars
SpecNames == InitNames /\ [][NextValidation]_vars


-----------------------------------------------------------------------------
(* What the claims speak of, stated without the operators of the code *)

entities == body.workflows
EntityIds == 1..Len(entities)

\* validateWorkflowRequest has run on a body that parsed
Validated == pc # "validate" /\ safeParse(body)

\* generateWorkflow was never invoked for the request
NotGenerated == step = 0 /\ pc \in {"validate", "rejected", "handle"}

\* nothing was created on the filesystem
NoWrites == ~baseDirExists /\ files = {} /\ schemaPrisma = <<>>

SameName(x, y) == toLowerCase(x) = toLowerCase(y)

Reported(kind) == {validationErrors[k] : k \in {k \in 1..Len(validationErrors) :
                                                  validationErrors[k].kind = kind}}

\* the pairs of entities whose names are equal ignoring letter case
CollidingPairs ==
    {p \in EntityIds \X EntityIds : p[1] < p[2] /\ SameName(entities[p[1]].name,
                                                            entities[p[2]].name)}

\* the target of the relation resolves to an entity of the Workflow
TargetResolves(r) == \E j \in EntityIds : SameName(entities[j].name, r.controller)

OwningRelation(r) == r.relation \in {"one-to-one", "one-to-many"} /\ r.isParent = TRUE

\* transitive closure of a finite relation
RECURSIVE Closure(_)
Closure(R) ==
    LET R2 == R \cup {<<pq[1][1], pq[2][2]>> : pq \in {x \in R \X R : x[1][2] = x[2][1]}}
    IN  IF R2 = R THEN R ELSE Closure(R2)
Cyclic(R) == \E p \in Closure(R) : p[1] = p[2]

\* the relations entity i declares
RelationsOf(i) == {entities[i].relations[j] : j \in 1..Len(entities[i].relations)}

\* ownership edges between names as written: source and target differ as strings
OwnershipEdges ==
    UNION {{<<entities[i].name, r.controller>> :
               r \in {x \in RelationsOf(i) :
                         OwningRelation(x) /\ entities[i].name # x.controller}} :
           i \in EntityIds}

\* edges between names as written, of any cardinality and either isParent
AnyEdges == UNION {{<<entities[i].name, r.controller>> : r \in RelationsOf(i)} :
                   i \in EntityIds}

\* ownership edges between entities: the target is resolved the way validation
\* resolves it, and a relation of an entity to itself is no edge
EntityOwnershipEdges ==
    {p \in EntityIds \X EntityIds :
        /\ ~SameName(entities[p[1]].name, entities[p[2]].name)
        /\ \E j \in 1..Len(entities[p[1]].relations) :
              /\ OwningRelation(entities[p[1]].relations[j])
              /\ SameName(entities[p[1]].relations[j].controller, entities[p[2]].name)}

\* every check but the uniqueness of entity names passes
OtherwiseValid ==
    /\ validateEntityName(body.name) = <<>>
    /\ \A i \in EntityIds :
          /\ validateEntityName(entities[i].name) = <<>>
          /\ \A j \in 1..Len(entities[i].props) :
                /\ validatePropertyName(entities[i].props[j].name) = <<>>
                /\ \A k \in 1..(j - 1) :
                      ~SameName(entities[i].props[k].name, entities[i].props[j].name)
                /\ \A k \in 1..Len(entities[i].props[j].validation) :
                      validateValidationRule(entities[i].props[j].validation[k],
                                             entities[i].props[j].type) = <<>>
          /\ \A j \in 1..Len(entities[i].relations) : TargetResolves(entities[i].relations[j])
    /\ ~Cyclic(OwnershipEdges)


-----------------------------------------------------------------------------
(* C1 *)

\* C1: when two entities have names equal ignoring letter case, validation reports
\* a duplicate-entity-name error and the request is rejected, generateWorkflow is
\* never invoked, and the report holds exactly one error when exactly two
\* entities collide and every other check passes.
C1_DuplicateEntityRejected ==
    CollidingPairs # {} =>
        /\ NotGenerated
        /\ Validated =>
              /\ pc = "rejected"
              /\ Reported("DuplicateEntity") # {}
              /\ (Cardinality(CollidingPairs) = 1 /\ OtherwiseValid
                     => Len(validationErrors) = 1)

\* a rejected request whose only flaw is a pair of names that differ in case only
C1_Witness ==
    /\ Validated /\ pc = "rejected"
    /\ Cardinality(CollidingPairs) = 1 /\ OtherwiseValid
    /\ \E p \in CollidingPairs : entities[p[1]].name # entities[p[2]].name
    /\ Len(validationErrors) = 1
    /\ validationErrors[1].kind = "DuplicateEntity"


-----------------------------------------------------------------------------
(* C2 *)

\* the report holds a dangling-reference error for relation r of entity i
MissingReported(i, r) ==
    \E e \in Reported("MissingEntity") :
        e.entity = entities[i].name /\ e.member = r.controller

\* C2: for every relation of every entity, the report contains a
\* dangling-reference error for it if and only if its target matches no entity
\* declared anywhere in the Workflow.
C2_DanglingIffUnresolved ==
    Validated =>
        \A i \in EntityIds : \A r \in RelationsOf(i) :
            MissingReported(i, r) <=> ~TargetResolves(r)

-----------------------------------------------------------------------------
(* C3 *)

\* C3: when the ownership relations form a directed cycle over two or more
\* entities, validateRelationships reports at least one cycle error, whatever the
\* order of declaration.
C3_OwnershipCycleDetected ==
    Validated /\ Cyclic(EntityOwnershipEdges) => Reported("Cycle") # {}

-----------------------------------------------------------------------------
(* C4 *)

\* C4: no cycle error is reported when the ownership edges (one-to-one or
\* one-to-many, isParent, source different from target) are acyclic, whatever
\* many-to-many, non-owning and self relations the Workflow also contains.
C4_NoCycleErrorWhenAcyclic ==
    Validated /\ ~Cyclic(OwnershipEdges) => Reported("Cycle") = {}

\* the relations form a cycle, the ownership edges among them do not, and the
\* report has no cycle error
C4_Witness ==
    /\ Validated
    /\ Cyclic(AnyEdges) /\ ~Cyclic(OwnershipEdges)
    /\ OwnershipEdges # {}
    /\ Reported("Cycle") = {}

-----------------------------------------------------------------------------
(* C5 *)

\* path is the full path of an ownership cycle
RealCyclePath(path) ==
    /\ Len(path) >= 2
    /\ path[1] = path[Len(path)]
    /\ \A k \in 1..(Len(path) - 1) : <<path[k], path[k + 1]>> \in OwnershipEdges

\* C5: every cycle error of the report carries the full path of a real ownership
\* cycle: first and last entity are the same and every consecutive pair is an
\* ownership edge, also for the errors reported after an earlier cycle was found.
C5_CyclePathIsRealCycle ==
    Validated => \A e \in Reported("Cycle") : RealCyclePath(e.path)

-----------------------------------------------------------------------------
(* C6 *)

ReportedFor(kind, i) == \E e \in Reported(kind) : e.entity = entities[i].name
ReportedMember(kind, i, prop) ==
    \E e \in Reported(kind) : e.entity = entities[i].name /\ e.member = prop.name

\* C6: the report is fail-complete: it holds an error for every violated check of
\* every entity, property, validation rule and relation, including the violations
\* inside an entity or a property that is itself reported as a duplicate.
C6_FailComplete ==
    Validated =>
        \A i \in EntityIds :
            /\ (\E k \in 1..(i - 1) : SameName(entities[k].name, entities[i].name))
                  => ReportedFor("DuplicateEntity", i)
            /\ validateEntityName(entities[i].name) # <<>> => ReportedFor("EntityName", i)
            /\ \A j \in 1..Len(entities[i].props) :
                  LET prop == entities[i].props[j] IN
                  /\ (\E k \in 1..(j - 1) : SameName(entities[i].props[k].name, prop.name))
                        => ReportedMember("DuplicateProperty", i, prop)
                  /\ validatePropertyName(prop.name) # <<>>
                        => ReportedMember("PropertyName", i, prop)
                  /\ \A k \in 1..Len(prop.validation) :
                        validateValidationRule(prop.validation[k], prop.type) # <<>>
                            => \E e \in Reported("Rule") :
                                  /\ e.entity = entities[i].name
                                  /\ e.member = prop.name
                                  /\ e.info = validateValidationRule(prop.validation[k],
                                                                     prop.type)
            /\ \A r \in RelationsOf(i) : ~TargetResolves(r) => MissingReported(i, r)


-----------------------------------------------------------------------------
(* C7 *)

\* C7: a request whose validation report is non-empty ends with the full error
\* list, and no output directory or file is ever created for it; nothing is
\* written before validation has passed.
C7_NoWritesUnlessValid ==
    /\ pc = "validate" => NoWrites /\ step = 0
    /\ validationErrors # <<>> =>
          /\ pc = "rejected"
          /\ response.status = 400 /\ response.errors = validationErrors
          /\ NoWrites /\ NotGenerated

\* a request rejected with a report of several errors, all of them in the response
C7_Witness ==
    /\ pc = "rejected"
    /\ Len(validationErrors) >= 2
    /\ response.errors = validationErrors
    /\ NoWrites

-----------------------------------------------------------------------------
(* C8 *)

\* C8: when a step of generateWorkflow fails after the output directory was
\* created, the partial output directory is deleted before the error reaches the
\* caller: no partial output directory remains after a failed compilation.
C8_FailureCleansUp ==
    pc = "failed" /\ ~returned => ~baseDirExists

-----------------------------------------------------------------------------
(* C9 *)

\* the files every entity must have, and the schema document
HasArtifacts(i) ==
    \A kind \in {"type", "service", "controller", "route"} :
        File(kind, entities[i].name) \in files

\* C9: when generateWorkflow returns an output directory, the directory holds the
\* runtime-type, service, controller and route file of every entity, with or
\* without properties, and the schema document.
C9_ReturnedDirectoryComplete ==
    returned /\ pc = "archiving" =>
        /\ \A i \in EntityIds : HasArtifacts(i)
        /\ File("schema", <<>>) \in files

-----------------------------------------------------------------------------
(* C10 *)

FieldsOf(i) == {schemaPrisma[i].fields[k] : k \in 1..Len(schemaPrisma[i].fields)}

\* the model of entity i has a collection field named by the plural of n
HasCollection(i, n) ==
    \E f \in FieldsOf(i) : f.mod = "[]" /\ f.model # <<>> /\ f.name = pluralize(n)

\* the model of entity i has a scalar foreign-key field for n
HasForeignKey(i, n) ==
    \E f \in FieldsOf(i) : f.scalar # "" /\ f.name \in {n, n \o IdSuffix}

\* entity i declares the one-to-many relation r to entity j, which declares none back
DeclaredOnOneSide(i, r, j) ==
    /\ i # j
    /\ r.relation = "one-to-many"
    /\ SameName(r.controller, entities[j].name)
    /\ \A q \in RelationsOf(j) : ~SameName(q.controller, entities[i].name)

\* C10: for a one-to-many relation between a parent A and a child B declared on
\* only one of the two, the generated schema has both halves: a collection field
\* named by the plural of B on the model of A, and a scalar foreign-key field for
\* A on the model of B.
C10_BothHalvesInSchema ==
    schemaPrisma # <<>> =>
        \A i \in EntityIds : \A j \in EntityIds : \A r \in RelationsOf(i) :
            DeclaredOnOneSide(i, r, j) =>
                LET A == IF r.isParent THEN i ELSE j
                    B == IF r.isParent THEN j ELSE i
                IN  /\ HasCollection(A, entities[B].name)
                    /\ HasForeignKey(B, entities[A].name)

-----------------------------------------------------------------------------
(* C11 *)

\* entity i declares the one-to-one or one-to-many relation r to another entity j
RelatesTo(i, r, j) ==
    /\ i # j
    /\ r.relation \in {"one-to-one", "one-to-many"}
    /\ SameName(r.controller, entities[j].name)

\* C11: in the generated schema, for every one-to-one or one-to-many relation
\* between two entities, the model of the isParent side has no foreign-key column
\* for it and the model of the other side has one.
C11_ForeignKeyOnChildOnly ==
    schemaPrisma # <<>> =>
        \A i \in EntityIds : \A j \in EntityIds : \A r \in RelationsOf(i) :
            RelatesTo(i, r, j) =>
                LET parent == IF r.isParent THEN i ELSE j
                    child == IF r.isParent THEN j ELSE i
                IN  /\ ~HasForeignKey(parent, entities[child].name)
                    /\ HasForeignKey(child, entities[parent].name)

-----------------------------------------------------------------------------
(* C12 *)

\* the properties of the request, each with the entity that declares it
PropertiesOf(i) == {entities[i].props[j] : j \in 1..Len(entities[i].props)}
RulesOf(prop) == {prop.validation[k] : k \in 1..Len(prop.validation)}

NumericBounds == {"min", "max"}
LengthBounds == {"minLength", "maxLength"}

\* the base type the rule needs is the declared type of the property
RuleFits(rule, type) ==
    /\ rule.type \in NumericBounds => type \in {"number", "int", "float", "date", "datetime"}
    /\ rule.type \in LengthBounds => type = "string"

\* C12: a min/max rule on a property that is not number, int, float, date or
\* datetime, and a minLength/maxLength rule on a property that is not string, gets
\* the request rejected; a property whose rules are bounds that all fit its type
\* is accepted.
C12_RuleTypeCompatibility ==
    pc # "validate" =>
        \A i \in EntityIds : \A prop \in PropertiesOf(i) :
            /\ (\E rule \in RulesOf(prop) : ~RuleFits(rule, prop.type)) => pc = "rejected"
            /\ (/\ prop.type \in PropertyTypes
                /\ \A rule \in RulesOf(prop) :
                      rule.type \in NumericBounds \cup LengthBounds /\ RuleFits(rule, prop.type))
                  => pc # "rejected" /\ validationErrors = <<>>

\* a min rule on a string property: the request is rejected with a rule error
C12_Witness ==
    /\ pc = "rejected"
    /\ \E i \in EntityIds : \E prop \in PropertiesOf(i) :
          /\ prop.type = "string"
          /\ \E rule \in RulesOf(prop) : rule.type = "min"
          /\ \A rule \in RulesOf(prop) : rule.type \in NumericBounds \cup LengthBounds
          /\ \E e \in Reported("Rule") : e.member = prop.name

-----------------------------------------------------------------------------
(* C13 *)

\* the names of the request: of the project, of the entities, of the properties
NamesOfRequest ==
    {body.name} \cup {entities[i].name : i \in EntityIds}
    \cup UNION {{prop.name : prop \in PropertiesOf(i)} : i \in EntityIds}

\* members of the generated infrastructure a name must not collide with
InfrastructureMembers ==
    { <<"c","o","n","s","t","r","u","c","t","o","r">>, <<"p","r","o","t","o","t","y","p","e">>,
      <<"t","o","S","t","r","i","n","g">>, <<"v","a","l","u","e","O","f">>}

\* the name is empty, no identifier, a reserved keyword in some letter case, or
\* the name of an infrastructure member
BadName(name) ==
    \/ name = <<>>
    \/ \A k \in 1..Len(name) : name[k] = " "
    \/ ~(/\ name[1] \in LowerSet \cup UpperSet \cup {"_", "$"}
         /\ \A k \in 2..Len(name) :
               name[k] \in LowerSet \cup UpperSet \cup Digits \cup {"_", "$"})
    \/ toLowerCase(name) \in reservedKeywords
    \/ name \in InfrastructureMembers

\* C13: a request with a project, entity or property name that is empty, no valid
\* identifier, a reserved keyword in any letter case, or one of constructor,
\* prototype, toString and valueOf, is rejected.
C13_BadNamesRejected ==
    pc # "validate" => ((\E name \in NamesOfRequest : BadName(name)) => pc = "rejected")

-----------------------------------------------------------------------------
(* C14 *)

\* C14: the folder name a request got from generateFolderName is the name of no
\* other request, in flight or earlier, so that no request writes into, archives
\* or deletes the directory of another.
C14_FolderNameUnique ==
    genDir # NoDir => genDir \notin otherDirs

-----------------------------------------------------------------------------
(* C15 *)

\* C15: once generateWorkflow has returned the directory and it was handed to the
\* archiver, deleteGeneratedFolder eventually runs for it, whether the response
\* finishes or errors, the archive errors or finalize rejects, and in whatever
\* order the events and the registration of their listeners happen.
C15_DirectoryEventuallyDeleted ==
    (returned /\ pc = "archiving") ~> cleanupRan

-----------------------------------------------------------------------------
(* C16 *)

\* generateWorkflow has returned the directory of the request
Compiled == returned /\ pc = "archiving" /\ ~finished

-----------------------------------------------------------------------------
(* C17 *)

\* the names a relation field or foreign-key column of relation r can have
RelationFieldNames(r) == {r.controller, pluralize(r.controller), r.controller \o IdSuffix}

\* the model at position i of the schema is the model of entity i: the identity
\* field first, the properties in declaration order, the relation fields, and
\* createdAt and updatedAt last
ModelInOrder(i) ==
    LET fields == schemaPrisma[i].fields
        props == entities[i].props
        n == Len(fields)
    IN  /\ schemaPrisma[i].name = capitalize(entities[i].name)
        /\ n >= Len(props) + 3
        /\ fields[1].name = idName /\ fields[1].attr = "@id"
        /\ \A j \in 1..Len(props) :
              fields[1 + j].name = props[j].name /\ fields[1 + j].scalar # ""
        /\ \A k \in (Len(props) + 2)..(n - 2) :
              \E r \in RelationsOf(i) : fields[k].name \in RelationFieldNames(r)
        /\ \A r \in RelationsOf(i) :
              \E k \in (Len(props) + 2)..(n - 2) : fields[k].name \in RelationFieldNames(r)
        /\ fields[n - 1].name = createdAtName
        /\ fields[n].name = updatedAtName

\* C17: the schema lists one model per entity in the declaration order of the
\* Workflow, and every model has the identity field first, then the properties
\* in declaration order, then the relation fields, then createdAt and updatedAt.
C17_SchemaOrder ==
    schemaPrisma # <<>> =>
        /\ Len(schemaPrisma) = Len(entities)
        /\ \A i \in EntityIds : ModelInOrder(i)

\* a schema of two models, one of them with two properties and a relation
C17_Witness ==
    /\ Len(schemaPrisma) = 2
    /\ schemaPrisma[1].name # schemaPrisma[2].name
    /\ \E i \in EntityIds : Len(entities[i].props) = 2 /\ Len(entities[i].relations) = 1
    /\ \A i \in EntityIds : ModelInOrder(i)

-----------------------------------------------------------------------------
(* C18 *)

\* the expression of a property before any of its rules is handled
ExpressionWithoutRules(prop) == mapZodType([prop EXCEPT !.validation = <<>>])

\* what one rule appends to the expression; the rules for which the validator
\* has no call append nothing (C19 is about those)
RuleFragment(rule) ==
    CASE rule.type \in {"minLength", "min"} -> <<Frag(".min", rule.value, <<>>, <<>>)>>
      [] rule.type \in {"maxLength", "max"} -> <<Frag(".max", rule.value, <<>>, <<>>)>>
      [] rule.type = "pattern" -> <<Frag(".regex", 0, rule.text, <<>>)>>
      [] rule.type = "email" -> <<Frag(".email", 0, <<>>, <<>>)>>
      [] rule.type = "uuid" -> <<Frag(".uuid", 0, <<>>, <<>>)>>
      [] OTHER -> <<>>

\* the position of the last enum rule of a property, 0 when it has none
LastEnum(prop) ==
    LET at == {k \in 1..Len(prop.validation) : prop.validation[k].type = "enum"}
    IN  IF at = {} THEN 0 ELSE CHOOSE k \in at : \A m \in at : m <= k

\* the expression the rules of a property compose to: the expression of the last
\* enum rule (the expression without rules when there is none), followed by the
\* fragments of the rules declared after it, in declaration order
ComposedExpression(prop) ==
    LET v == prop.validation
        last == LastEnum(prop)
        start == IF last = 0 THEN ExpressionWithoutRules(prop)
                 ELSE <<Frag("z.enum", 0, <<>>, v[last].values)>>
    IN  start \o flatten([k \in 1..(Len(v) - last) |-> RuleFragment(v[last + k])])

-----------------------------------------------------------------------------
(* C19 *)

\* the calls of an expression that come from rules: all but the expression
\* without rules or, when there is an enum rule, all from the enum call on
RuleCalls(prop, zod) ==
    IF LastEnum(prop) = 0 THEN Len(zod) - Len(ExpressionWithoutRules(prop)) ELSE Len(zod)

\* the rules of a property that no later enum rule replaces
RulesInForce(prop) ==
    IF LastEnum(prop) = 0 THEN Len(prop.validation)
    ELSE Len(prop.validation) - LastEnum(prop) + 1

\* C19: every rule variant that validation accepts on a property is mapped to a
\* fragment of the generated validator expression: the expression has one call
\* for every rule of the property that no later enum rule replaces.
C19_EveryAcceptedRuleMapped ==
    \A i \in EntityIds :
        zodSchemas[i] # <<>> =>
            \A j \in 1..Len(entities[i].props) :
                RuleCalls(entities[i].props[j], zodSchemas[i][j].zod)
                    = RulesInForce(entities[i].props[j])

-----------------------------------------------------------------------------
(* C20 *)

\* C20: a property whose type is a custom tag outside the fixed enumeration of
\* kinds passes validation, and the type written for it in the generated type
\* definition is that tag as it was given.
C20_CustomTagPreserved ==
    \A i \in EntityIds :
        \A j \in 1..Len(entities[i].props) :
            (entities[i].props[j].type \notin PropertyTypes
             /\ entities[i].props[j].validation = <<>>) =>
                /\ pc # "validate" => pc # "rejected"
                /\ typeLines[i] # <<>> => typeLines[i][j].type = entities[i].props[j].type

-----------------------------------------------------------------------------
(* C21 *)

\* C21: a request whose entity list is empty or holds more than 20 entities is
\* answered with a 400 error and never reaches generateWorkflow, and a request of
\* 1 to 20 valid entities is not turned away for its size.
C21_EntityCountChecked ==
    pc # "validate" =>
        IF Len(entities) = 0 \/ Len(entities) > 20
        THEN pc = "rejected" /\ response.status = 400 /\ NotGenerated /\ NoWrites
        ELSE pc # "rejected" /\ response.status # 400

\* a request of 21 entities was answered with a 400 error
C21_Witness ==
    Len(entities) = 21 /\ pc = "rejected" /\ response.status = 400 /\ NotGenerated

-----------------------------------------------------------------------------
(* C22 *)

\* C22: once validation has passed, no generator step fails because of the
\* content of the Workflow: as long as no filesystem operation fails, a request
\* that validateWorkflowRequest accepted does not fail before generateWorkflow
\* has returned.
C22_GeneratorsTotalOnValidInput ==
    (Validated /\ validationErrors = <<>> /\ ~returned) => pc # "failed"

-----------------------------------------------------------------------------
(* C23 *)

\* the body has a violation: it does not parse, or the report is not empty
HasViolations == ~safeParse(body) \/ validationReport(body) # <<>>

-----------------------------------------------------------------------------
(* C24 *)

\* the files the k-th step of the compilation leaves below baseDir when it
\* completes
FilesOfStep(k) ==
    LET s == StepAt(body, k)
        w == entities[s.ent]
    IN  CASE s.op = "ensureDir" -> {}
          [] s.op = "generateTSConfigWithComments" -> {File("tsconfig", <<>>)}
          [] s.op = "generateUtils" -> {File("utils", <<>>)}
          [] s.op = "generateType" -> IF w.props = <<>> THEN {} ELSE {File("type", w.name)}
          [] s.op = "generatePrismaService" -> {File("service", w.name)}
          [] s.op = "generateController" -> {File("controller", w.name)}
          [] s.op = "generateRoute" -> {File("route", w.name)}
          [] s.op = "generatePrismaClientFile" -> {File("prismaClient", <<>>)}
          [] s.op = "generateSchemaPrisma" -> {File("schema", <<>>)}
          [] s.op = "generateAppTs" -> {File("app", <<>>)}
          [] s.op = "generateServerTs" -> {File("server", <<>>)}
          [] s.op = "generatePackageJson" -> {File("packageJson", <<>>)}
          [] s.op = "generateEnvFile" -> {File("env", <<>>)}
          [] s.op = "generateReadme" -> {File("readme", <<>>)}
          [] s.op = "generateTestDataSeeder" -> {File("seed", <<>>)}
          [] s.op = "generateSwaggerDocs" -> {File("swagger", <<>>)}

\* C24: the generator steps run one after another and no step is started after
\* the first one that fails: the files below baseDir are at any time those of an
\* initial stretch of the steps, so whenever the file of a step is there, the
\* files of every earlier step are there as well, and after a failure the
\* compilation stays at the step that failed.
C24_NoStepAfterFailure ==
    /\ \A k \in 1..NumSteps(body) :
          (FilesOfStep(k) # {} /\ FilesOfStep(k) \subseteq files) =>
              \A j \in 1..(k - 1) : FilesOfStep(j) \subseteq files
    /\ (pc = "failed" /\ ~returned) =>
          \A k \in 1..NumSteps(body) : k >= step => FilesOfStep(k) \cap files = {}

\* a compilation that failed at a step after some files were written and before
\* the last step
C24_Witness ==
    /\ pc = "failed" /\ ~returned
    /\ files # {}
    /\ step < NumSteps(body)
    /\ FilesOfStep(step + 1) # {} /\ FilesOfStep(step + 1) \cap files = {}

-----------------------------------------------------------------------------
(* C25 *)

\* C25: in every model of the schema generated for a Workflow that passed
\* validation the field names are pairwise distinct, counting the id field, the
\* properties, the relation fields with their foreign-key columns, and createdAt
\* and updatedAt.
C25_FieldNamesDistinct ==
    (Validated /\ validationErrors = <<>>) =>
        \A i \in 1..Len(schemaPrisma) :
            \A a, b \in 1..Len(schemaPrisma[i].fields) :
                a # b => schemaPrisma[i].fields[a].name # schemaPrisma[i].fields[b].name

-----------------------------------------------------------------------------
(* C26 *)

\* the names of the scalar columns of a model
ScalarColumns(model) ==
    {model.fields[k].name : k \in {k \in 1..Len(model.fields) : model.fields[k].scalar # ""}}

\* C26: in every generated model each column named in the fields list of a
\* relation attribute is declared as a scalar column of that model, on the
\* non-parent side of one-to-one and of one-to-many relations alike.
C26_RelationColumnsDeclared ==
    \A i \in 1..Len(schemaPrisma) :
        \A k \in 1..Len(schemaPrisma[i].fields) :
            \A c \in 1..Len(schemaPrisma[i].fields[k].fields) :
                schemaPrisma[i].fields[k].fields[c] \in ScalarColumns(schemaPrisma[i])

-----------------------------------------------------------------------------
(* C27 *)

\* the names of the models of the schema
ModelNames == {schemaPrisma[i].name : i \in 1..Len(schemaPrisma)}

\* C27: in the schema generated for a Workflow that passed validation the type
\* of every relation field is the name of a model of the same schema, whatever
\* the letter case in which the relation names its target.
C27_RelationTypeIsModel ==
    (Validated /\ validationErrors = <<>>) =>
        \A i \in 1..Len(schemaPrisma) :
            \A k \in 1..Len(schemaPrisma[i].fields) :
                schemaPrisma[i].fields[k].model # <<>> =>
                    schemaPrisma[i].fields[k].model \in ModelNames

-----------------------------------------------------------------------------
(* C28 *)

\* the type file of entity i has a connect-by-id field for relation r
HasConnect(i, r) ==
    \E k \in 1..Len(typeLines[i]) :
        typeLines[i][k].type = "connect" /\ typeLines[i][k].name = r.controller

\* the model of entity i has a relation field for r that holds a foreign key
CarriesForeignKey(i, r) ==
    \E k \in 1..Len(schemaPrisma[i].fields) :
        /\ schemaPrisma[i].fields[k].name = r.controller
        /\ schemaPrisma[i].fields[k].fields # <<>>

\* C28: for every entity and every relation it declares, the type file of the
\* entity has a connect-by-id field for the relation if and only if the storage
\* model of the entity carries the foreign key for it.
C28_ConnectIffForeignKey ==
    schemaPrisma # <<>> =>
        \A i \in EntityIds :
            \A j \in 1..Len(entities[i].relations) :
                HasConnect(i, entities[i].relations[j])
                    <=> CarriesForeignKey(i, entities[i].relations[j])

-----------------------------------------------------------------------------
(* C29 *)

\* the kind of value a storage column type holds
ColumnKind(scalar) ==
    CASE scalar = "String" -> "text"
      [] scalar = "Int" -> "integer"
      [] scalar = "Float" -> "floating number"
      [] scalar = "Boolean" -> "boolean"
      [] scalar = "DateTime" -> "date-time"
      [] scalar = "Json" -> "JSON"
      [] OTHER -> scalar

\* the kind of value the base of a validator expression demands
ValidatorKind(zod) ==
    CASE zod[1].call \in {"z.string", "z.enum"} -> "text"
      [] zod[1].call = "z.number" ->
            IF Len(zod) >= 2 /\ zod[2].call = ".int" THEN "integer" ELSE "floating number"
      [] zod[1].call = "z.boolean" -> "boolean"
      [] zod[1].call = "z.date" -> "date-time"
      [] zod[1].call = "z.object" -> "JSON"
      [] OTHER -> zod[1].call

-----------------------------------------------------------------------------
(* C30 *)

\* generateWorkflow is about to call an optional feature generator
FeatureGeneratorStarts ==
    /\ pc = "generating"
    /\ step <= NumSteps(body)
    /\ StepAt(body, step).op \in {"generateTestDataSeeder", "generateSwaggerDocs"}

\* C30: the optional feature generators start only after package.json and
\* src/app.ts have been written, and when a feature is enabled and generation
\* has succeeded, package.json holds the scripts and dependencies of the feature.
C30_FeaturesAfterProjectFiles ==
    /\ FeatureGeneratorStarts => sections.packageJson # {} /\ sections.appTs # {}
    /\ (returned /\ pc = "archiving") =>
          /\ body.features.testDataSeeding => "seed" \in sections.packageJson
          /\ body.features.apiDocumentation =>
                "docs" \in sections.packageJson /\ "swagger" \in sections.appTs

\* generation succeeded with both features enabled, and package.json holds the
\* parts of both next to its base part
C30_Witness ==
    /\ returned /\ pc = "archiving"
    /\ body.features.testDataSeeding /\ body.features.apiDocumentation
    /\ sections.packageJson = {"base", "seed", "docs"}

====
